---------------------------- MODULE Spec2Model ----------------------------
(***************************************************************************)
(* The rename-image endpoint of backend/app/routes/images.py               *)
(* (rename_image): filename validation, path construction and the          *)
(* reserve / rename / cleanup protocol on the filesystem, run by several   *)
(* request handlers at once.                                               *)
(*                                                                         *)
(* Strings (identifiers, names, paths) are sequences of one-character      *)
(* strings.  The filesystem is a function from the paths that exist to the *)
(* files at them.  Every collaborator call (catalog lookup, os.open,       *)
(* os.rename, os.unlink) is one atomic step of the handler making it.      *)
(***************************************************************************)
EXTENDS Integers, Sequences, FiniteSets, TLC

VARIABLES
    fs,         \* the filesystem: [path -> file] over the paths that exist
    catalog,    \* the image catalog read by db_get_image_path_by_id
    request,    \* request[i]: the RenameImageRequest invocation i was called with
    frame,      \* frame[i]: the local variables and position of invocation i
    response,   \* response[i]: what invocation i returned or raised
    calls,      \* calls[i]: the collaborator calls invocation i has made, in order
    logged      \* logged[i]: the logger.error records of invocation i

vars == <<fs, catalog, request, frame, response, calls, logged>>

-----------------------------------------------------------------------------
(* Bounds *)

\* number of rename requests handled (each by its own handler, any interleaving)
NumInv == 2

\* longest proposed name drawn exhaustively in the sequential specification
MaxNameLen == 4

\* longest catalog path drawn in the path-construction specification
MaxPathLen == 5

Inv == 1..NumInv

-----------------------------------------------------------------------------
(* Strings *)

RECURSIVE StringsUpTo(_, _)
StringsUpTo(alphabet, n) ==
    IF n = 0 THEN {<<>>}
    ELSE LET shorter == StringsUpTo(alphabet, n - 1)
         IN  shorter \cup {Append(s, ch) : s \in shorter, ch \in alphabet}

Whitespace == {" ", "\t"}

RECURSIVE lstrip(_)
lstrip(s) ==
    IF s # <<>> /\ Head(s) \in Whitespace THEN lstrip(Tail(s)) ELSE s

RECURSIVE rstrip(_)
rstrip(s) ==
    IF s # <<>> /\ s[Len(s)] \in Whitespace
    THEN rstrip(SubSeq(s, 1, Len(s) - 1))
    ELSE s

\* str.strip()
strip(s) == rstrip(lstrip(s))

\* str.endswith(ch) for a one-character suffix
endswith(s, ch) == s # <<>> /\ s[Len(s)] = ch

\* str.find / str.rfind of one character: the 1-based index, 0 when absent
find(s, ch) ==
    IF \E k \in 1..Len(s) : s[k] = ch
    THEN CHOOSE k \in 1..Len(s) : s[k] = ch /\ \A m \in 1..(k - 1) : s[m] # ch
    ELSE 0

rfind(s, ch) ==
    IF \E k \in 1..Len(s) : s[k] = ch
    THEN CHOOSE k \in 1..Len(s) : s[k] = ch /\ \A m \in (k + 1)..Len(s) : s[m] # ch
    ELSE 0

LowerCase == <<"a","b","c","d","e","f","g","h","i","j","k","l","m",
               "n","o","p","q","r","s","t","u","v","w","x","y","z">>
UpperCase == <<"A","B","C","D","E","F","G","H","I","J","K","L","M",
               "N","O","P","Q","R","S","T","U","V","W","X","Y","Z">>

\* str.upper()
upper(s) ==
    [k \in 1..Len(s) |->
        IF \E m \in 1..26 : LowerCase[m] = s[k]
        THEN UpperCase[CHOOSE m \in 1..26 : LowerCase[m] = s[k]]
        ELSE s[k]]


-----------------------------------------------------------------------------
(* Validation of the request (rules 1 to 6) *)

\* set('<>:"/\\\\|?*!^')
invalid_chars == {"<", ">", ":", "\"", "/", "\\", "|", "?", "*", "!", "^"}

Digits1to9 == {"1", "2", "3", "4", "5", "6", "7", "8", "9"}

reserved_device_names ==
    {<<"C","O","N">>, <<"P","R","N">>, <<"N","U","L">>, <<"A","U","X">>}
        \cup {<<"C","O","M",d>> : d \in Digits1to9}
        \cup {<<"L","P","T",d>> : d \in Digits1to9}

\* new_name.split(".", 1)[0]
base_stem(new_name) ==
    IF find(new_name, ".") = 0 THEN new_name
    ELSE SubSeq(new_name, 1, find(new_name, ".") - 1)

MsgEmptyId      == "Image ID cannot be empty"
MsgEmptyName    == "New image name cannot be empty"
MsgInvalidChars == "New image name contains invalid characters."
MsgOnlyDots     == "New image name cannot be '.' , '..' or consist only of dots."
MsgTrailing     == "New image name cannot end with a dot or space."
MsgReserved     == "New image name cannot use a reserved Windows device name (CON, PRN, NUL, AUX, COM1-COM9, LPT1-LPT9)."
MsgValid        == "valid"

\* A faulty variant of ValidationMessage: the trailing dot/space check is made
\* before the invalid-character and only-dots checks.
ValidationMessageReordered(req_image_id, raw_name) ==
    LET image_id == strip(req_image_id)
        new_name == strip(raw_name)
    IN  IF image_id = <<>> THEN MsgEmptyId
        ELSE IF new_name = <<>> THEN MsgEmptyName
        ELSE IF raw_name # <<>> /\ (endswith(raw_name, ".") \/ endswith(raw_name, " "))
            THEN MsgTrailing
        ELSE IF \E k \in 1..Len(new_name) : new_name[k] \in invalid_chars
            THEN MsgInvalidChars
        ELSE IF \A k \in 1..Len(new_name) : new_name[k] = "."
            THEN MsgOnlyDots
        ELSE IF base_stem(new_name) # <<>>
                /\ upper(base_stem(new_name)) \in reserved_device_names
            THEN MsgReserved
        ELSE MsgValid

\* The chain of checks of rename_image, in the order of the code: the message
\* of the first check that raises, MsgValid when none does.
ValidationMessage(req_image_id, raw_name) ==
    LET image_id == strip(req_image_id)
        new_name == strip(raw_name)
    IN  IF image_id = <<>> THEN MsgEmptyId
        ELSE IF new_name = <<>> THEN MsgEmptyName
        ELSE IF \E k \in 1..Len(new_name) : new_name[k] \in invalid_chars
            THEN MsgInvalidChars
        ELSE IF \A k \in 1..Len(new_name) : new_name[k] = "."
            THEN MsgOnlyDots
        ELSE IF raw_name # <<>> /\ (endswith(raw_name, ".") \/ endswith(raw_name, " "))
            THEN MsgTrailing
        ELSE IF base_stem(new_name) # <<>>
                /\ upper(base_stem(new_name)) \in reserved_device_names
            THEN MsgReserved
        ELSE MsgValid

-----------------------------------------------------------------------------
(* Path construction: os.path.dirname, os.path.splitext, os.path.join      *)
(* (posixpath)                                                             *)

\* str.rstrip("/")
RECURSIVE rstrip_sep(_)
rstrip_sep(s) ==
    IF s # <<>> /\ s[Len(s)] = "/" THEN rstrip_sep(SubSeq(s, 1, Len(s) - 1)) ELSE s

\* os.path.dirname(p): the head up to the last "/", without its trailing
\* slashes unless it consists of slashes only
dirname(p) ==
    LET head == SubSeq(p, 1, rfind(p, "/"))
    IN  IF head # <<>> /\ (\E k \in 1..Len(head) : head[k] # "/")
        THEN rstrip_sep(head)
        ELSE head

\* os.path.splitext(p)[1]: from the last dot of the final component, provided
\* a character other than "." stands before it in that component
splitext_ext(p) ==
    LET sepIndex == rfind(p, "/")
        dotIndex == rfind(p, ".")
    IN  IF dotIndex > sepIndex
           /\ \E k \in (sepIndex + 1)..(dotIndex - 1) : p[k] # "."
        THEN SubSeq(p, dotIndex, Len(p))
        ELSE <<>>

\* os.path.join(a, b)
join(a, b) ==
    IF b # <<>> /\ Head(b) = "/" THEN b
    ELSE IF a = <<>> \/ endswith(a, "/") THEN a \o b
    ELSE a \o <<"/">> \o b

-----------------------------------------------------------------------------
(* Files, responses and the handler's frame *)

\* "no value": None, as db_get_image_path_by_id returns for an unknown id
None == <<"<None>">>

\* A file that existed before any request: real image content.
ImageFile(content) == [data |-> content, by |-> 0]

\* The zero-length file that os.open(O_CREAT | O_EXCL) of invocation i creates.
Placeholder(i) == [data |-> "", by |-> i]

NoMessage == [text |-> "", arg |-> <<>>]

NoResponse == [status_code |-> 0, error |-> "", message |-> NoMessage]

\* HTTPException(status_code, detail=ErrorResponse(success=False, error, message))
ErrorResponse(code, error, text, arg) ==
    [status_code |-> code, error |-> error, message |-> [text |-> text, arg |-> arg]]

\* RenameImageResponse(success=True, message=f"Successfully renamed image to '...'")
RenameImageResponse(filename) ==
    [status_code |-> 200, error |-> "",
     message |-> [text |-> "Successfully renamed image to", arg |-> filename]]

\* the outer "except Exception" handler
InternalServerError(exc) ==
    ErrorResponse(500, "Internal server error", "Unable to rename image", <<exc>>)

IdleFrame ==
    [pc |-> "idle", image_id |-> <<>>, raw_name |-> <<>>, new_name |-> <<>>,
     image_path |-> None, extension |-> <<>>, new_file_path |-> None,
     placeholder_created |-> FALSE, exc |-> ""]

Call_(fn, args, result) == [fn |-> fn, args |-> args, result |-> result]

\* A faulty variant of os_rename: the file is copied, the source stays.
os_rename_keeps_source(files, src, dst) ==
    [q \in DOMAIN files \cup {dst} |-> IF q = dst THEN files[src] ELSE files[q]]

\* A faulty variant of os_rename: the arguments are swapped, the (existing)
\* destination is moved onto the source.
os_rename_swapped(files, src, dst) ==
    IF src = dst \/ dst \notin DOMAIN files THEN files
    ELSE [q \in (DOMAIN files \ {dst}) \cup {src} |->
            IF q = src THEN files[dst] ELSE files[q]]

\* os.rename(src, dst) on a filesystem where src exists (POSIX: dst is replaced,
\* and renaming a file onto itself does nothing)
os_rename(files, src, dst) ==
    IF src = dst THEN files
    ELSE [q \in (DOMAIN files \ {src}) \cup {dst} |->
            IF q = dst THEN files[src] ELSE files[q]]

\* os.unlink(path) on a filesystem where path exists
os_unlink(files, path) == [q \in DOMAIN files \ {path} |-> files[q]]

\* A faulty variant of open_excl_fails: the flag O_EXCL is missing, so that opening
\* an existing path succeeds.
open_without_excl(files, path) == FALSE

\* os.open(path, O_CREAT | O_EXCL | O_WRONLY) raises FileExistsError
open_excl_fails(files, path) == path \in DOMAIN files

\* A faulty variant of os_open_creat: the flag O_CREAT is missing, no file is
\* created.
os_open_without_creat(files, path, i) == files

\* the filesystem after a successful os.open(path, O_CREAT | ...)
os_open_creat(files, path, i) ==
    IF path \in DOMAIN files THEN files ELSE (path :> Placeholder(i)) @@ files

-----------------------------------------------------------------------------
(* The handler rename_image, one action per collaborator call *)

\* PUT /rename-image arrives: rename_image(request) is entered.
Call(i, req) ==
    /\ frame[i].pc = "idle"
    /\ request' = [request EXCEPT ![i] = req]
    /\ frame' = [frame EXCEPT ![i].pc = "validate"]
    /\ UNCHANGED <<fs, catalog, response, calls, logged>>

\* A faulty variant of Validate: the catalog is looked up before the request is
\* validated.
ValidateAfterLookup(i) ==
    /\ frame[i].pc = "validate"
    /\ LET msg == ValidationMessage(request[i].image_id, request[i].rename)
       IN  /\ frame' = [frame EXCEPT
                  ![i].pc = IF msg = MsgValid THEN "lookup" ELSE "done",
                  ![i].image_id = strip(request[i].image_id),
                  ![i].raw_name = request[i].rename,
                  ![i].new_name = strip(request[i].rename)]
           /\ response' = [response EXCEPT ![i] =
                  IF msg = MsgValid THEN @
                  ELSE ErrorResponse(400, "Validation Error", msg, <<>>)]
    /\ calls' = [calls EXCEPT ![i] = Append(@,
                  Call_("db_get_image_path_by_id", <<strip(request[i].image_id)>>, "ok"))]
    /\ UNCHANGED <<fs, catalog, request, logged>>

\* Strip the inputs and apply rules 1 to 6; the first failing check raises
\* HTTPException(400, "Validation Error").
Validate(i) ==
    /\ frame[i].pc = "validate"
    /\ LET msg == ValidationMessage(request[i].image_id, request[i].rename)
       IN  /\ frame' = [frame EXCEPT
                  ![i].pc = IF msg = MsgValid THEN "lookup" ELSE "done",
                  ![i].image_id = strip(request[i].image_id),
                  ![i].raw_name = request[i].rename,
                  ![i].new_name = strip(request[i].rename)]
           /\ response' = [response EXCEPT ![i] =
                  IF msg = MsgValid THEN @
                  ELSE ErrorResponse(400, "Validation Error", msg, <<>>)]
    /\ UNCHANGED <<fs, catalog, request, calls, logged>>

\* db_get_image_path_by_id(image_id) as the catalog answers it
db_get_image_path_by_id(image_id) ==
    IF image_id \in DOMAIN catalog THEN catalog[image_id] ELSE None

\* A faulty variant of not_found: a missing path is not detected.
not_found_never(image_path) == FALSE

\* "if not image_path"
not_found(image_path) == image_path = None \/ image_path = <<>>

\* A faulty variant of new_file_path_of: every rename in a directory goes
\* through one and the same path of that directory.
new_file_path_shared(image_path, new_name) ==
    join(dirname(image_path), <<"t">> \o splitext_ext(image_path))

\* A faulty variant of new_file_path_of: the extension is taken from the proposed
\* name when it has one.
new_file_path_ext_from_name(image_path, new_name) ==
    IF splitext_ext(new_name) # <<>>
    THEN join(dirname(image_path), new_name)
    ELSE join(dirname(image_path), new_name \o splitext_ext(image_path))

\* os.path.join(folder_path, new_name + extension)
new_file_path_of(image_path, new_name) ==
    join(dirname(image_path), new_name \o splitext_ext(image_path))

\* Look the path up; None raises HTTPException(404, "Image Not Found"), an
\* exception of the lookup ends in the outer handler (500).  Then build the
\* target path.
Lookup(i) ==
    /\ frame[i].pc = "lookup"
    /\ \/ /\ calls' = [calls EXCEPT ![i] = Append(@,
                  Call_("db_get_image_path_by_id", <<frame[i].image_id>>, "raise"))]
          /\ frame' = [frame EXCEPT ![i].pc = "done", ![i].exc = "lookup failed"]
          /\ response' = [response EXCEPT ![i] = InternalServerError("lookup failed")]
          /\ logged' = [logged EXCEPT ![i] = Append(@, "Error renaming image")]
       \/ LET image_path == db_get_image_path_by_id(frame[i].image_id)
          IN  /\ calls' = [calls EXCEPT ![i] = Append(@,
                      Call_("db_get_image_path_by_id", <<frame[i].image_id>>, "ok"))]
              /\ IF not_found(image_path)
                 THEN /\ frame' = [frame EXCEPT ![i].pc = "done"]
                      /\ response' = [response EXCEPT ![i] =
                             ErrorResponse(404, "Image Not Found",
                                 "Image with ID does not exist.", frame[i].image_id)]
                 ELSE /\ frame' = [frame EXCEPT
                             ![i].pc = "reserve",
                             ![i].image_path = image_path,
                             ![i].extension = splitext_ext(image_path),
                             ![i].new_file_path =
                                 new_file_path_of(image_path, frame[i].new_name)]
                      /\ UNCHANGED response
              /\ UNCHANGED logged
    /\ UNCHANGED <<fs, catalog, request>>

\* A faulty variant of Reserve: instead of failing on an existing path, the
\* create-exclusive is retried until the path is free.
ReserveWaitsForFreePath(i) ==
    /\ frame[i].pc = "reserve"
    /\ ~open_excl_fails(fs, frame[i].new_file_path)
    /\ fs' = os_open_creat(fs, frame[i].new_file_path, i)
    /\ calls' = [calls EXCEPT ![i] = Append(@,
            Call_("os.open", <<frame[i].new_file_path>>, "ok"))]
    /\ frame' = [frame EXCEPT ![i].pc = "rename", ![i].placeholder_created = TRUE]
    /\ UNCHANGED <<catalog, request, response, logged>>

\* os.open(new_file_path, O_CREAT | O_EXCL | O_WRONLY); os.close(fd);
\* placeholder_created = True.  FileExistsError raises HTTPException(400,
\* "File Exists"); any other exception goes to the cleanup handler.
Reserve(i) ==
    /\ frame[i].pc = "reserve"
    /\ LET path == frame[i].new_file_path
       IN  IF open_excl_fails(fs, path)
           THEN /\ calls' = [calls EXCEPT ![i] = Append(@,
                        Call_("os.open", <<path>>, "FileExistsError"))]
                /\ frame' = [frame EXCEPT ![i].pc = "done"]
                /\ response' = [response EXCEPT ![i] =
                       ErrorResponse(400, "File Exists",
                           "A file with the new name already exists.", <<>>)]
                /\ UNCHANGED fs
           ELSE \/ /\ fs' = os_open_creat(fs, path, i)
                   /\ calls' = [calls EXCEPT ![i] = Append(@,
                           Call_("os.open", <<path>>, "ok"))]
                   /\ frame' = [frame EXCEPT ![i].pc = "rename",
                                             ![i].placeholder_created = TRUE]
                   /\ UNCHANGED response
                \/ /\ calls' = [calls EXCEPT ![i] = Append(@,
                           Call_("os.open", <<path>>, "OSError"))]
                   /\ frame' = [frame EXCEPT ![i].pc = "cleanup",
                                             ![i].exc = "os.open failed"]
                   /\ UNCHANGED <<fs, response>>
                \/ /\ fs' = os_open_creat(fs, path, i)
                   /\ calls' = [calls EXCEPT ![i] = Append(@,
                           Call_("os.open", <<path>>, "ok"))]
                   /\ frame' = [frame EXCEPT ![i].pc = "cleanup",
                                             ![i].exc = "os.close failed"]
                   /\ UNCHANGED response
    /\ UNCHANGED <<catalog, request, logged>>

\* os.rename(image_path, new_file_path), then the success response; an
\* exception of os.rename goes to the cleanup handler.
Rename(i) ==
    /\ frame[i].pc = "rename"
    /\ LET src == frame[i].image_path
           dst == frame[i].new_file_path
       IN  \/ /\ calls' = [calls EXCEPT ![i] = Append(@,
                      Call_("os.rename", <<src, dst>>, "OSError"))]
              /\ frame' = [frame EXCEPT ![i].pc = "cleanup",
                                        ![i].exc = "os.rename failed"]
              /\ UNCHANGED <<fs, response>>
           \/ IF src \notin DOMAIN fs
              THEN /\ calls' = [calls EXCEPT ![i] = Append(@,
                           Call_("os.rename", <<src, dst>>, "FileNotFoundError"))]
                   /\ frame' = [frame EXCEPT ![i].pc = "cleanup",
                                             ![i].exc = "FileNotFoundError"]
                   /\ UNCHANGED <<fs, response>>
              ELSE /\ fs' = os_rename(fs, src, dst)
                   /\ calls' = [calls EXCEPT ![i] = Append(@,
                           Call_("os.rename", <<src, dst>>, "ok"))]
                   /\ frame' = [frame EXCEPT ![i].pc = "done"]
                   /\ response' = [response EXCEPT ![i] =
                          RenameImageResponse(frame[i].new_name \o frame[i].extension)]
    /\ UNCHANGED <<catalog, request, logged>>

\* A faulty variant of Cleanup: an exception of os.unlink is not caught, so
\* that it is the one the outer handler reports.
CleanupUnlinkErrorEscapes(i) ==
    /\ frame[i].pc = "cleanup"
    /\ LET path == frame[i].new_file_path
       IN  IF frame[i].placeholder_created
           THEN \/ /\ path \in DOMAIN fs
                   /\ fs' = os_unlink(fs, path)
                   /\ calls' = [calls EXCEPT ![i] = Append(@,
                           Call_("os.unlink", <<path>>, "ok"))]
                   /\ response' = [response EXCEPT ![i] =
                           InternalServerError(frame[i].exc)]
                \/ /\ calls' = [calls EXCEPT ![i] = Append(@,
                           Call_("os.unlink", <<path>>, "OSError"))]
                   /\ response' = [response EXCEPT ![i] =
                           InternalServerError("os.unlink failed")]
                   /\ UNCHANGED fs
           ELSE /\ response' = [response EXCEPT ![i] =
                       InternalServerError(frame[i].exc)]
                /\ UNCHANGED <<fs, calls>>
    /\ logged' = [logged EXCEPT ![i] = Append(@, "Error renaming image")]
    /\ frame' = [frame EXCEPT ![i].pc = "done"]
    /\ UNCHANGED <<catalog, request>>

\* A faulty variant of Cleanup: the target path is deleted whether or not the
\* placeholder was created.
CleanupUnconditional(i) ==
    /\ frame[i].pc = "cleanup"
    /\ LET path == frame[i].new_file_path
       IN  IF path \in DOMAIN fs
           THEN /\ fs' = os_unlink(fs, path)
                /\ calls' = [calls EXCEPT ![i] = Append(@,
                        Call_("os.unlink", <<path>>, "ok"))]
                /\ logged' = [logged EXCEPT ![i] = Append(@, "Error renaming image")]
           ELSE /\ calls' = [calls EXCEPT ![i] = Append(@,
                        Call_("os.unlink", <<path>>, "FileNotFoundError"))]
                /\ logged' = [logged EXCEPT ![i] =
                        @ \o <<"Failed to clean up placeholder file",
                               "Error renaming image">>]
                /\ UNCHANGED fs
    /\ frame' = [frame EXCEPT ![i].pc = "done"]
    /\ response' = [response EXCEPT ![i] = InternalServerError(frame[i].exc)]
    /\ UNCHANGED <<catalog, request>>

\* A faulty variant of Cleanup: the placeholder is never deleted.
CleanupWithoutUnlink(i) ==
    /\ frame[i].pc = "cleanup"
    /\ frame' = [frame EXCEPT ![i].pc = "done"]
    /\ response' = [response EXCEPT ![i] = InternalServerError(frame[i].exc)]
    /\ logged' = [logged EXCEPT ![i] = Append(@, "Error renaming image")]
    /\ UNCHANGED <<fs, calls, catalog, request>>

\* "except Exception as e": os.unlink(new_file_path) if placeholder_created
\* (an OSError of it is only logged), re-raise, and the outer handler answers
\* 500 "Internal server error" with the message of e.
Cleanup(i) ==
    /\ frame[i].pc = "cleanup"
    /\ LET path == frame[i].new_file_path
       IN  \/ /\ frame[i].placeholder_created
              /\ IF path \in DOMAIN fs
                 THEN /\ fs' = os_unlink(fs, path)
                      /\ calls' = [calls EXCEPT ![i] = Append(@,
                              Call_("os.unlink", <<path>>, "ok"))]
                      /\ logged' = [logged EXCEPT ![i] =
                              Append(@, "Error renaming image")]
                 ELSE /\ calls' = [calls EXCEPT ![i] = Append(@,
                              Call_("os.unlink", <<path>>, "FileNotFoundError"))]
                      /\ logged' = [logged EXCEPT ![i] =
                              @ \o <<"Failed to clean up placeholder file",
                                     "Error renaming image">>]
                      /\ UNCHANGED fs
           \/ /\ frame[i].placeholder_created
              /\ calls' = [calls EXCEPT ![i] = Append(@,
                      Call_("os.unlink", <<path>>, "OSError"))]
              /\ logged' = [logged EXCEPT ![i] =
                      @ \o <<"Failed to clean up placeholder file",
                             "Error renaming image">>]
              /\ UNCHANGED fs
           \/ /\ ~frame[i].placeholder_created
              /\ logged' = [logged EXCEPT ![i] = Append(@, "Error renaming image")]
              /\ UNCHANGED <<fs, calls>>
    /\ frame' = [frame EXCEPT ![i].pc = "done"]
    /\ response' = [response EXCEPT ![i] = InternalServerError(frame[i].exc)]
    /\ UNCHANGED <<catalog, request>>

-----------------------------------------------------------------------------
(* The concurrent specification: NumInv requests on a catalog of two images *)

PathA == <<"/", "d", "/", "a", ".", "j">>
PathC == <<"/", "d", "/", "c", ".", "j">>

\* the catalog: image "1" is /d/a.j, image "2" is /d/c.j
MainCatalog == (<<"1">> :> PathA) @@ (<<"2">> :> PathC)

\* both image files are on disk
MainFiles == (PathA :> ImageFile("image 1")) @@ (PathC :> ImageFile("image 2"))

\* the identifiers and names requests are made with: the two images and an
\* unknown identifier; the name of image 1, two free names and an invalid name
MainIds == {<<"1">>, <<"2">>, <<"9">>}
MainNames == {<<"a">>, <<"b">>, <<"e">>, <<"b", "*">>}

Requests == [image_id : MainIds, rename : MainNames]

NoRequest == [image_id |-> <<>>, rename |-> <<>>]

StartedFrame == [IdleFrame EXCEPT !.pc = "validate"]

\* NumInv requests have arrived and their handlers run concurrently.
Init ==
    /\ fs = MainFiles
    /\ catalog = MainCatalog
    /\ request \in [Inv -> Requests]
    /\ frame = [i \in Inv |-> StartedFrame]
    /\ response = [i \in Inv |-> NoResponse]
    /\ calls = [i \in Inv |-> <<>>]
    /\ logged = [i \in Inv |-> <<>>]

Next ==
    \E i \in Inv :
        \/ Validate(i)
        \/ Lookup(i)
        \/ Reserve(i)
        \/ Rename(i)
        \/ Cleanup(i)

Spec == Init /\ [][Next]_vars

-----------------------------------------------------------------------------
(* The sequential specification: one request, its identifier and name drawn *)
(* from all short strings, or its catalog path drawn from all short paths   *)

NameAlphabet == {"c", "O", "N", ".", " ", "*"}

\* empty, whitespace only, a known identifier to be trimmed, an unknown one
SeqIds == {<<>>, <<" ", "\t">>, <<" ", "1", " ">>, <<"9">>}

\* longer names: device names with an extension, in either case, with a digit
DeviceLikeNames ==
    {<<"c", "O", "N", ".", "c">>, <<"C", "O", "N", ".", "t", "x", "t">>,
     <<"n", "u", "l">>, <<"P", "r", "n", ".", "a", ".", "b">>, <<"a", "u", "x", ".">>,
     <<"C", "o", "m", "1">>, <<"l", "p", "t", "9", ".", "x">>,
     <<"C", "O", "M", "0">>, <<"C", "O", "M">>, <<"L", "P", "T", "1", "0">>,
     <<"C", "O", "N", " ", ".", "x">>, <<".", "C", "O", "N">>,
     <<"\t", "A", "U", "X", "\t">>, <<"c", ".", "\t">>}

SeqNames == StringsUpTo(NameAlphabet, MaxNameLen) \cup DeviceLikeNames

PathAlphabet == {"/", ".", "a"}

\* An absolute path of a file, as the catalog stores them: no empty, "." or
\* ".." component.
IsFilePath(p) ==
    /\ p # <<>>
    /\ Head(p) = "/"
    /\ p[Len(p)] # "/"
    /\ \A k \in 1..(Len(p) - 1) : ~(p[k] = "/" /\ p[k + 1] = "/")
    /\ \A k \in 1..Len(p) :
          p[k] = "/" =>
              /\ ~(k + 1 <= Len(p) /\ p[k + 1] = "."
                     /\ (k + 1 = Len(p) \/ p[k + 2] = "/"))
              /\ ~(k + 2 <= Len(p) /\ p[k + 1] = "." /\ p[k + 2] = "."
                     /\ (k + 2 = Len(p) \/ p[k + 3] = "/"))

SeqPaths == {p \in StringsUpTo(PathAlphabet, MaxPathLen) : IsFilePath(p)}

\* names the path-construction runs are made with: plain, with a dot of its
\* own, with a leading dot, to be trimmed
PathNames == {<<"b">>, <<"b", ".", "x">>, <<".", "b">>, <<" ", "b", "\t">>}

InitSeqWith(req, cat, files) ==
    /\ fs = files
    /\ catalog = cat
    /\ request = [i \in Inv |-> IF i = 1 THEN req ELSE NoRequest]
    /\ frame = [i \in Inv |-> IF i = 1 THEN StartedFrame ELSE IdleFrame]
    /\ response = [i \in Inv |-> NoResponse]
    /\ calls = [i \in Inv |-> <<>>]
    /\ logged = [i \in Inv |-> <<>>]

InitSeq ==
    \/ \E id \in SeqIds, name \in SeqNames :
          InitSeqWith([image_id |-> id, rename |-> name], MainCatalog, MainFiles)
    \/ \E path \in SeqPaths, name \in PathNames :
          InitSeqWith([image_id |-> <<"1">>, rename |-> name],
                      (<<"1">> :> path), (path :> ImageFile("image 1")))

NextSeq ==
    \/ Validate(1)
    \/ Lookup(1)
    \/ Reserve(1)
    \/ Rename(1)
    \/ Cleanup(1)

SpecSeq == InitSeq /\ [][NextSeq]_vars

-----------------------------------------------------------------------------
(* The serial specification: the requests are served one after the other,  *)
(* request i + 1 arriving after request i was answered                      *)

InitSerial ==
    /\ fs = MainFiles
    /\ catalog = MainCatalog
    /\ request = [i \in Inv |-> NoRequest]
    /\ frame = [i \in Inv |-> IdleFrame]
    /\ response = [i \in Inv |-> NoResponse]
    /\ calls = [i \in Inv |-> <<>>]
    /\ logged = [i \in Inv |-> <<>>]

NextSerial ==
    \E i \in Inv :
        \/ /\ \A k \in Inv : k < i => frame[k].pc = "done"
           /\ \E req \in Requests : Call(i, req)
        \/ Validate(i)
        \/ Lookup(i)
        \/ Reserve(i)
        \/ Rename(i)
        \/ Cleanup(i)

SpecSerial == InitSerial /\ [][NextSerial]_vars

-----------------------------------------------------------------------------
(* The concurrent specification of accepted requests: every request is for   *)
(* one of the two images, with the name of image 1 or one of two free names  *)

PairRequests == [image_id : {<<"1">>, <<"2">>}, rename : {<<"a">>, <<"b">>, <<"e">>}]

InitPair ==
    /\ fs = MainFiles
    /\ catalog = MainCatalog
    /\ request \in [Inv -> PairRequests]
    /\ frame = [i \in Inv |-> StartedFrame]
    /\ response = [i \in Inv |-> NoResponse]
    /\ calls = [i \in Inv |-> <<>>]
    /\ logged = [i \in Inv |-> <<>>]

SpecPair == InitPair /\ [][Next]_vars

-----------------------------------------------------------------------------
(* The server specification: NumInv worker threads serve accepted requests, *)
(* each thread one request after the other, the threads concurrently        *)

\* A worker thread that has answered its request is given the next one:
\* rename_image(request) is entered anew, with fresh locals.
Serve(i, req) ==
    /\ frame[i].pc = "done"
    /\ request' = [request EXCEPT ![i] = req]
    /\ frame' = [frame EXCEPT ![i] = StartedFrame]
    /\ response' = [response EXCEPT ![i] = NoResponse]
    /\ calls' = [calls EXCEPT ![i] = <<>>]
    /\ logged' = [logged EXCEPT ![i] = <<>>]
    /\ UNCHANGED <<fs, catalog>>

NextServer ==
    \E i \in Inv :
        \/ \E req \in PairRequests : Serve(i, req)
        \/ Validate(i)
        \/ Lookup(i)
        \/ Reserve(i)
        \/ Rename(i)
        \/ Cleanup(i)

SpecServer == InitPair /\ [][NextServer]_vars

-----------------------------------------------------------------------------
(* The concurrent specification under fair scheduling: each handler runs in *)
(* a thread of its own, which the scheduler does not starve, and every      *)
(* blocking call it makes returns or raises                                  *)

\* the next step of handler i
Step(i) ==
    \/ Validate(i)
    \/ Lookup(i)
    \/ Reserve(i)
    \/ Rename(i)
    \/ Cleanup(i)

\* requests of every outcome: for image 1 or an unknown image, with the name
\* of image 1, a free name or an invalid name
FairRequests == [image_id : {<<"1">>, <<"9">>}, rename : {<<"a">>, <<"b">>, <<"b", "*">>}]

InitFair ==
    /\ fs = MainFiles
    /\ catalog = MainCatalog
    /\ request \in [Inv -> FairRequests]
    /\ frame = [i \in Inv |-> StartedFrame]
    /\ response = [i \in Inv |-> NoResponse]
    /\ calls = [i \in Inv |-> <<>>]
    /\ logged = [i \in Inv |-> <<>>]

FairSpec == InitFair /\ [][Next]_vars /\ \A i \in Inv : WF_vars(Step(i))

-----------------------------------------------------------------------------
(* Vocabulary of the properties *)

Called(i) == frame[i].pc # "idle"
Done(i) == frame[i].pc = "done"

FsCalls == {"os.open", "os.rename", "os.unlink"}

\* the successful filesystem calls an invocation has made
Mutations(i) ==
    {k \in 1..Len(calls[i]) : calls[i][k].fn \in FsCalls /\ calls[i][k].result = "ok"}

\* the filesystem calls, successful or not, an invocation has made
FsCallsOf(i) == {k \in 1..Len(calls[i]) : calls[i][k].fn \in FsCalls}

IsValidationError(r) == r.status_code = 400 /\ r.error = "Validation Error"
IsNotFound(r) == r.status_code = 404 /\ r.error = "Image Not Found"
IsFileExists(r) == r.status_code = 400 /\ r.error = "File Exists"
IsInternalError(r) == r.status_code = 500 /\ r.error = "Internal server error"
IsSuccess(r) == r.status_code = 200

\* The string without its leading and trailing whitespace, stated directly:
\* the part from its first to its last character that is not whitespace.
Trimmed(s) ==
    LET solid == {k \in 1..Len(s) : s[k] \notin {" ", "\t"}}
    IN  IF solid = {} THEN <<>>
        ELSE SubSeq(s, CHOOSE a \in solid : \A k \in solid : a <= k,
                       CHOOSE b \in solid : \A k \in solid : k <= b)

\* The part of a name before its first dot.
StemBeforeFirstDot(s) ==
    LET dots == {k \in 1..Len(s) : s[k] = "."}
    IN  IF dots = {} THEN s
        ELSE SubSeq(s, 1, (CHOOSE a \in dots : \A k \in dots : a <= k) - 1)

ForbiddenCharacters == {"<", ">", ":", "\"", "/", "\\", "|", "?", "*", "!", "^"}

DeviceNames ==
    {<<"C","O","N">>, <<"P","R","N">>, <<"N","U","L">>, <<"A","U","X">>,
     <<"C","O","M","1">>, <<"C","O","M","2">>, <<"C","O","M","3">>,
     <<"C","O","M","4">>, <<"C","O","M","5">>, <<"C","O","M","6">>,
     <<"C","O","M","7">>, <<"C","O","M","8">>, <<"C","O","M","9">>,
     <<"L","P","T","1">>, <<"L","P","T","2">>, <<"L","P","T","3">>,
     <<"L","P","T","4">>, <<"L","P","T","5">>, <<"L","P","T","6">>,
     <<"L","P","T","7">>, <<"L","P","T","8">>, <<"L","P","T","9">>}

\* x and y are the same character up to the case of a letter
SameIgnoringCase(x, y) ==
    \/ x = y
    \/ \E m \in 1..26 : {x, y} = {LowerCase[m], UpperCase[m]}

EqualIgnoringCase(s, t) ==
    /\ Len(s) = Len(t)
    /\ \A k \in 1..Len(s) : SameIgnoringCase(s[k], t[k])

\* The rules 1 to 6 of the validation that a request violates.
ViolatedRules(req) ==
    LET id   == Trimmed(req.image_id)
        name == Trimmed(req.rename)
        raw  == req.rename
    IN  {r \in 1..6 :
           \/ r = 1 /\ id = <<>>
           \/ r = 2 /\ name = <<>>
           \/ r = 3 /\ \E k \in 1..Len(name) : name[k] \in ForbiddenCharacters
           \/ r = 4 /\ \A k \in 1..Len(name) : name[k] = "."
           \/ r = 5 /\ raw # <<>> /\ raw[Len(raw)] \in {".", " "}
           \/ r = 6 /\ \E d \in DeviceNames :
                         EqualIgnoringCase(StemBeforeFirstDot(name), d)}

FirstViolatedRule(req) ==
    LET violated == ViolatedRules(req)
    IN  CHOOSE r \in violated : \A q \in violated : r <= q

RuleMessage(r) ==
    CASE r = 1 -> "Image ID cannot be empty"
      [] r = 2 -> "New image name cannot be empty"
      [] r = 3 -> "New image name contains invalid characters."
      [] r = 4 -> "New image name cannot be '.' , '..' or consist only of dots."
      [] r = 5 -> "New image name cannot end with a dot or space."
      [] r = 6 -> "New image name cannot use a reserved Windows device name (CON, PRN, NUL, AUX, COM1-COM9, LPT1-LPT9)."

-----------------------------------------------------------------------------
(* Validation *)

\* C9: the validation rules are applied in the order 1 to 6 and the first
\* failing rule wins: a request that violates at least one rule ends as
\* Validation Error (400) with the message of the first rule it violates,
\* whatever the other field holds, whether or not the identifier is known and
\* whether or not the target exists.
C9_FirstFailingRuleWins ==
    \A i \in Inv :
        (Called(i) /\ frame[i].pc # "validate" /\ ViolatedRules(request[i]) # {}) =>
            /\ Done(i)
            /\ response[i] = ErrorResponse(400, "Validation Error",
                                 RuleMessage(FirstViolatedRule(request[i])), <<>>)

\* A request with a known identifier that violates rules 3 and 5 at once (and
\* not rule 4) has been answered, and one with an empty identifier and an
\* invalid name too.
C9_Witness ==
    /\ Done(1)
    /\ {3, 5} \subseteq ViolatedRules(request[1])
    /\ 1 \notin ViolatedRules(request[1])
    /\ Trimmed(request[1].image_id) \in DOMAIN catalog
    /\ response[1].message.text = "New image name contains invalid characters."

\* C7: an invocation that ends in Validation Error has made no call at all:
\* no lookup of the catalog and no filesystem primitive, and the filesystem
\* is as it was, whatever the catalog and the filesystem contain.
C7_ValidationErrorTouchesNothing ==
    \A i \in Inv :
        IsValidationError(response[i]) =>
            /\ calls[i] = <<>>
            /\ fs = MainFiles
            /\ Done(i)

\* A request for a known image has ended in Validation Error.
C7_Witness ==
    /\ Done(1)
    /\ IsValidationError(response[1])
    /\ Trimmed(request[1].image_id) \in DOMAIN catalog
    /\ 1 \notin ViolatedRules(request[1])

\* C8: when the name passes validation and the lookup returns no path, the
\* invocation fails with Image Not Found (404), the lookup is the only call
\* it has made, and the filesystem is unchanged.
C8_NotFoundMakesNoFilesystemCall ==
    \A i \in Inv :
        (/\ Called(i)
         /\ frame[i].pc \notin {"validate", "lookup"}
         /\ ViolatedRules(request[i]) = {}
         /\ Trimmed(request[i].image_id) \notin DOMAIN catalog
         /\ calls[i] # <<>>
         /\ calls[i][1].result = "ok") =>
            /\ Done(i)
            /\ IsNotFound(response[i])
            /\ response[i].message.arg = Trimmed(request[i].image_id)
            /\ calls[i] = <<Call_("db_get_image_path_by_id",
                                  <<Trimmed(request[i].image_id)>>, "ok")>>
            /\ FsCallsOf(i) = {}
            /\ fs = MainFiles

\* A valid request for an unknown identifier has been answered after a lookup.
C8_Witness ==
    /\ Done(1)
    /\ ViolatedRules(request[1]) = {}
    /\ Trimmed(request[1].image_id) \notin DOMAIN catalog
    /\ Len(calls[1]) = 1
    /\ calls[1][1].result = "ok"

-----------------------------------------------------------------------------
(* Path construction *)

\* The path up to and including its last "/".
DirectoryWithSlash(p) ==
    LET seps == {k \in 1..Len(p) : p[k] = "/"}
    IN  IF seps = {} THEN <<>>
        ELSE SubSeq(p, 1, CHOOSE a \in seps : \A k \in seps : k <= a)

\* The extension of the file at a path: the part of its final component from
\* that component's last dot on, when a character other than a dot stands
\* before that dot in the component; empty otherwise.
ExtensionOf(p) ==
    LET file == SubSeq(p, Len(DirectoryWithSlash(p)) + 1, Len(p))
        ends == {k \in 1..Len(file) :
                    /\ file[k] = "."
                    /\ \A m \in (k + 1)..Len(file) : file[m] # "."
                    /\ \E m \in 1..(k - 1) : file[m] # "."}
    IN  IF ends = {} THEN <<>>
        ELSE SubSeq(file, CHOOSE k \in ends : TRUE, Len(file))

RenameCallsOf(i) == {k \in 1..Len(calls[i]) : calls[i][k].fn = "os.rename"}

\* C6: once the request is accepted (valid, its image found), the target path
\* is the directory of the current path joined with the trimmed proposed name
\* followed by the extension of the current path, also when the proposed name
\* has a dot of its own; os.rename is called with (current path, target path)
\* and no more than once, exactly once when the rename succeeds; and the
\* success message names the trimmed name followed by the inherited extension.
C6_TargetIsDirectoryNameExtension ==
    \A i \in Inv :
        (Called(i) /\ frame[i].new_file_path # None) =>
            LET current == catalog[Trimmed(request[i].image_id)]
                name    == Trimmed(request[i].rename)
                target  == DirectoryWithSlash(current) \o name \o ExtensionOf(current)
            IN  /\ frame[i].image_path = current
                /\ frame[i].new_file_path = target
                /\ Cardinality(RenameCallsOf(i)) <= 1
                /\ \A k \in RenameCallsOf(i) : calls[i][k].args = <<current, target>>
                /\ IsSuccess(response[i]) =>
                      /\ Cardinality(RenameCallsOf(i)) = 1
                      /\ response[i].message =
                            [text |-> "Successfully renamed image to",
                             arg |-> name \o ExtensionOf(current)]
                      /\ target \in DOMAIN fs
                      /\ fs[target] = ImageFile("image 1")

\* A file with an extension, in a directory other than the root, has been
\* renamed to a name that has a dot of its own.
C6_Witness ==
    /\ IsSuccess(response[1])
    /\ \E k \in 1..Len(request[1].rename) : request[1].rename[k] = "."
    /\ ExtensionOf(frame[1].image_path) # <<>>
    /\ Len(DirectoryWithSlash(frame[1].image_path)) > 1
    /\ Len(calls[1]) = 3

-----------------------------------------------------------------------------
(* The reservation protocol *)

LastCall(seq) == seq[Len(seq)]

\* the invocation's os.rename raised
RenameFailed(i) ==
    \E k \in RenameCallsOf(i) : calls[i][k].result # "ok"

\* the invocation's os.rename succeeded
RenameSucceeded(i) ==
    \E k \in RenameCallsOf(i) : calls[i][k].result = "ok"

\* the invocation's own placeholder is at its target path
PlaceholderLeft(i) ==
    /\ frame[i].new_file_path \in DOMAIN fs
    /\ fs[frame[i].new_file_path] = Placeholder(i)

\* both invocations have built the same target path
SameTarget(i, j) ==
    /\ i # j
    /\ frame[i].new_file_path # None
    /\ frame[i].new_file_path = frame[j].new_file_path

\* the invocation has completed a create-exclusive of its target path
WonReservation(i) ==
    \E k \in 1..Len(calls[i]) : calls[i][k].fn = "os.open" /\ calls[i][k].result = "ok"

\* no os.open of the invocation failed for a reason other than path-exists
NoOpenFault(i) ==
    \A k \in 1..Len(calls[i]) : calls[i][k].fn = "os.open" => calls[i][k].result # "OSError"

\* C3: when a file is at the target path as the invocation attempts its
\* reservation, the invocation ends there with File Exists (400) and the step
\* changes nothing on the filesystem; it has then made no successful
\* filesystem call at all, so neither the original file nor the file at the
\* target path was overwritten, renamed or deleted.
C3_ExistingTargetIsRefused ==
    [][\A i \in Inv :
          (/\ frame[i].pc = "reserve"
           /\ frame'[i].pc # "reserve"
           /\ frame[i].new_file_path \in DOMAIN fs) =>
              /\ frame'[i].pc = "done"
              /\ IsFileExists(response'[i])
              /\ fs' = fs
              /\ \A k \in 1..Len(calls'[i]) :
                    calls'[i][k].fn \in FsCalls => calls'[i][k].result # "ok"
              /\ LastCall(calls'[i]) =
                    Call_("os.open", <<frame[i].new_file_path>>, "FileExistsError")]_vars

\* A request whose target is the file of another image was refused, and both
\* image files are where they were.
C3_Witness ==
    \E i \in Inv :
        /\ IsFileExists(response[i])
        /\ frame[i].image_path = PathC
        /\ frame[i].new_file_path = PathA
        /\ fs = MainFiles

\* C1 as claimed: of two concurrent invocations with the same target path,
\* free at the start, whose create-exclusive calls met no other error, exactly
\* one wins the reservation and the other observes File Exists (400) having
\* created, renamed and deleted nothing.
C1_ExactlyOneWins ==
    \A i, j \in Inv :
        (/\ SameTarget(i, j)
         /\ frame[i].new_file_path \notin DOMAIN MainFiles
         /\ Done(i) /\ Done(j)
         /\ NoOpenFault(i) /\ NoOpenFault(j)) =>
            \/ WonReservation(i) /\ IsFileExists(response[j]) /\ Mutations(j) = {}
            \/ WonReservation(j) /\ IsFileExists(response[i]) /\ Mutations(i) = {}

\* C1, amended: of two concurrent invocations with the same target path, one
\* that attempts its reservation while the other's placeholder or renamed file
\* is at the path observes File Exists (400) and creates, renames and deletes
\* nothing; a create-exclusive succeeds only on a free path, on which it puts
\* the invocation's own placeholder, so it never succeeds while the other
\* holds the reservation.
C1_ReservationIsExclusive ==
    [][\A i, j \in Inv :
          (/\ SameTarget(i, j)
           /\ frame[i].pc = "reserve"
           /\ frame'[i].pc # "reserve") =>
              /\ (PlaceholderLeft(j) \/ (RenameSucceeded(j) /\ frame[j].new_file_path \in DOMAIN fs)) =>
                    /\ IsFileExists(response'[i])
                    /\ frame'[i].pc = "done"
                    /\ fs' = fs
                    /\ \A k \in 1..Len(calls'[i]) :
                          calls'[i][k].fn \in FsCalls => calls'[i][k].result # "ok"
              /\ frame'[i].placeholder_created =>
                    /\ frame[i].new_file_path \notin DOMAIN fs
                    /\ ~PlaceholderLeft(j)
                    /\ fs' = (frame[i].new_file_path :> Placeholder(i)) @@ fs]_vars

\* One invocation was refused with File Exists while the other, with the same
\* target, holds the reservation: its placeholder is at the path and its
\* rename is still to come.
C1_Witness ==
    \E i, j \in Inv :
        /\ SameTarget(i, j)
        /\ IsFileExists(response[i])
        /\ frame[j].pc = "rename"
        /\ PlaceholderLeft(j)

\* C2 as claimed: whenever an invocation has ended in an error, it has not
\* renamed the original file (which is at its original path unless another
\* invocation renamed it) and no placeholder of its own is left at its target
\* path.
C2_ErrorLeavesOriginalAndCleanTarget ==
    \A i \in Inv :
        (Done(i) /\ response[i].status_code >= 400) =>
            /\ ~RenameSucceeded(i)
            /\ ~PlaceholderLeft(i)
            /\ (frame[i].image_path # None /\ \A k \in Inv : ~RenameSucceeded(k)) =>
                  /\ frame[i].image_path \in DOMAIN fs
                  /\ fs[frame[i].image_path] = MainFiles[frame[i].image_path]

\* C4 as claimed: if the rename step throws after the placeholder was
\* created, the placeholder is removed, the invocation has not moved the
\* original file and the caller receives Internal server error (500).
C4_FailedRenameRemovesPlaceholder ==
    \A i \in Inv :
        (Done(i) /\ RenameFailed(i)) =>
            /\ IsInternalError(response[i])
            /\ ~PlaceholderLeft(i)
            /\ ~RenameSucceeded(i)

\* C4, amended: if the rename step throws after the placeholder was created,
\* the failed rename has changed nothing, the delete of the target path is
\* attempted and the caller receives Internal server error (500); when the
\* delete succeeds no file is left at the target path, when it fails nothing
\* changes (the placeholder stays); no other path is touched, so the original
\* file remains at its original path.
C4_FailedRenameIsCleanedUp ==
    [][\A i \in Inv :
          /\ (frame[i].pc = "rename" /\ frame'[i].pc = "cleanup") =>
                /\ fs' = fs
                /\ frame[i].placeholder_created
                /\ LastCall(calls'[i]).fn = "os.rename"
                /\ LastCall(calls'[i]).result # "ok"
          /\ (frame[i].pc = "cleanup" /\ frame'[i].pc # "cleanup" /\ RenameFailed(i)) =>
                LET path == frame[i].new_file_path
                IN  /\ frame'[i].pc = "done"
                    /\ IsInternalError(response'[i])
                    /\ Len(calls'[i]) = Len(calls[i]) + 1
                    /\ LastCall(calls'[i]).fn = "os.unlink"
                    /\ LastCall(calls'[i]).args = <<path>>
                    /\ LastCall(calls'[i]).result = "ok" => path \notin DOMAIN fs'
                    /\ LastCall(calls'[i]).result # "ok" => fs' = fs
                    /\ DOMAIN fs' \subseteq DOMAIN fs
                    /\ \A q \in DOMAIN fs \ {path} :
                          q \in DOMAIN fs' /\ fs'[q] = fs[q]]_vars

\* A rename failed, the placeholder was deleted and the original file is at
\* its path; the answer is Internal server error.
C4_Witness ==
    \E i \in Inv :
        /\ Done(i)
        /\ RenameFailed(i)
        /\ IsInternalError(response[i])
        /\ LastCall(calls[i]) = Call_("os.unlink", <<frame[i].new_file_path>>, "ok")
        /\ frame[i].new_file_path \notin DOMAIN fs
        /\ frame[i].image_path \in DOMAIN fs
        /\ fs[frame[i].image_path].by = 0

\* C5 as claimed: when an invocation returns success, no file is at the old
\* path and the file at the new path has the content that was at the old
\* path, not the zero-length placeholder.
C5_SuccessMovesTheFile ==
    [][\A i \in Inv :
          (~IsSuccess(response[i]) /\ IsSuccess(response'[i])) =>
              /\ frame[i].image_path \notin DOMAIN fs'
              /\ frame[i].new_file_path \in DOMAIN fs'
              /\ fs'[frame[i].new_file_path].data # ""]_vars

\* C10 as claimed: when a request that succeeded is made again right after,
\* the second call ends in File Exists or Image Not Found and has changed
\* nothing on the filesystem.
C10_SecondCallFileExistsOrNotFound ==
    \A i \in Inv :
        (/\ i + 1 \in Inv
         /\ IsSuccess(response[i])
         /\ request[i + 1] = request[i]
         /\ Done(i + 1)) =>
            /\ IsFileExists(response[i + 1]) \/ IsNotFound(response[i + 1])
            /\ Mutations(i + 1) = {}

\* C10, amended: when a request that succeeded is made again right after, the
\* second call never succeeds and makes no successful filesystem call; it ends
\* in File Exists or Image Not Found, or in Internal server error when the
\* lookup itself raised.
C10_SecondCallNeverSucceeds ==
    \A i \in Inv :
        (/\ i + 1 \in Inv
         /\ IsSuccess(response[i])
         /\ frame[i + 1].pc # "idle"
         /\ request[i + 1] = request[i]) =>
            /\ Mutations(i + 1) = {}
            /\ frame[i + 1].pc \in {"validate", "lookup", "reserve", "done"}
            /\ Done(i + 1) =>
                  \/ IsFileExists(response[i + 1])
                  \/ IsNotFound(response[i + 1])
                  \/ /\ IsInternalError(response[i + 1])
                     /\ calls[i + 1] = <<Call_("db_get_image_path_by_id",
                                              <<frame[i + 1].image_id>>, "raise")>>

\* The same request was made twice in a row: the first call succeeded, the
\* second ended in File Exists.
C10_Witness ==
    /\ IsSuccess(response[1])
    /\ request[2] = request[1]
    /\ IsFileExists(response[2])
    /\ fs[frame[1].new_file_path] = ImageFile("image 1")

-----------------------------------------------------------------------------
(* Independence of invocations *)

\* the request passes the validation and its image is in the catalog
Accepted(req) ==
    /\ ViolatedRules(req) = {}
    /\ Trimmed(req.image_id) \in DOMAIN catalog

\* the current path of the image of an accepted request
SourceOf(req) == catalog[Trimmed(req.image_id)]

\* the target path of an accepted request
TargetOf(req) ==
    DirectoryWithSlash(SourceOf(req)) \o Trimmed(req.rename)
        \o ExtensionOf(SourceOf(req))

\* two accepted requests on different images, proposing different names
DifferentImagesAndNames(i, j) ==
    /\ i # j
    /\ request[i].image_id # request[j].image_id
    /\ request[i].rename # request[j].rename
    /\ Trimmed(request[i].image_id) # Trimmed(request[j].image_id)
    /\ Trimmed(request[i].rename) # Trimmed(request[j].rename)
    /\ Accepted(request[i]) /\ Accepted(request[j])

\* neither request's current or target path is a path of the other
DisjointPaths(i, j) ==
    {SourceOf(request[i]), TargetOf(request[i])}
        \cap {SourceOf(request[j]), TargetOf(request[j])} = {}

\* no invocation other than i and j has changed the filesystem
OthersChangedNothing(i, j) == \A k \in Inv \ {i, j} : Mutations(k) = {}

\* The filesystem that the first n calls of invocation i, with the results
\* they had, make of the initial one when no other invocation runs.
RECURSIVE AloneFs(_, _)
AloneFs(i, n) ==
    IF n = 0 THEN MainFiles
    ELSE LET before == AloneFs(i, n - 1)
             c == calls[i][n]
         IN  IF c.fn \notin FsCalls \/ c.result # "ok" THEN before
             ELSE IF c.fn = "os.open"
                  THEN [q \in DOMAIN before \cup {c.args[1]} |->
                           IF q = c.args[1] THEN Placeholder(i) ELSE before[q]]
             ELSE IF c.fn = "os.unlink"
                  THEN [q \in DOMAIN before \ {c.args[1]} |-> before[q]]
             ELSE IF c.args[1] \notin DOMAIN before \/ c.args[1] = c.args[2]
                  THEN before
             ELSE [q \in (DOMAIN before \ {c.args[1]}) \cup {c.args[2]} |->
                      IF q = c.args[2] THEN before[c.args[1]] ELSE before[q]]

\* Invocation i has fared as if it had run alone: each of its filesystem
\* calls found the files that its own earlier calls alone had left, its
\* current and target paths hold what its own calls alone make of them, and
\* its answer is the one of its last call.
AsIfAlone(i) ==
    /\ \A n \in 1..Len(calls[i]) :
          LET before == AloneFs(i, n - 1)
              c == calls[i][n]
          IN  /\ c.fn = "os.open" =>
                    (c.result = "FileExistsError" <=> c.args[1] \in DOMAIN before)
              /\ c.fn \in {"os.rename", "os.unlink"} =>
                    /\ c.result = "ok" => c.args[1] \in DOMAIN before
                    /\ c.result = "FileNotFoundError" => c.args[1] \notin DOMAIN before
    /\ LET alone == AloneFs(i, Len(calls[i]))
       IN  \A q \in {SourceOf(request[i]), TargetOf(request[i])} :
               /\ q \in DOMAIN fs <=> q \in DOMAIN alone
               /\ q \in DOMAIN fs => fs[q] = alone[q]
    /\ (Done(i) /\ calls[i] # <<>>) =>
          LET last == LastCall(calls[i])
          IN  IF last.fn = "os.rename" /\ last.result = "ok"
              THEN response[i] = RenameImageResponse(
                       Trimmed(request[i].rename) \o ExtensionOf(SourceOf(request[i])))
              ELSE IF last.fn = "os.open" /\ last.result = "FileExistsError"
              THEN IsFileExists(response[i])
              ELSE IsInternalError(response[i])

\* C11 as claimed: of two concurrent invocations on different image
\* identifiers proposing different names, each fares in every interleaving
\* as if it had run alone, in its outcome and in its effect on the
\* filesystem.
C11_DifferentImagesAndNamesIndependent ==
    \A i, j \in Inv :
        (DifferentImagesAndNames(i, j) /\ OthersChangedNothing(i, j)) =>
            AsIfAlone(i)

\* C11, amended: two concurrent invocations on different image identifiers
\* whose current and target paths are all different from the other's (neither
\* targets the other's current path nor the other's target path) proceed
\* independently: in every interleaving each one's calls, outcome and effect
\* on the filesystem are those of a run of its own.
C11_DisjointPathsIndependent ==
    \A i, j \in Inv :
        (/\ DifferentImagesAndNames(i, j)
         /\ DisjointPaths(i, j)
         /\ OthersChangedNothing(i, j)) =>
            AsIfAlone(i)

\* Two invocations on different images with free, different targets have
\* both ended: one renamed its image, the rename of the other failed and its
\* placeholder was deleted.
C11_Witness ==
    \E i, j \in Inv :
        /\ DifferentImagesAndNames(i, j)
        /\ DisjointPaths(i, j)
        /\ IsSuccess(response[i])
        /\ fs[TargetOf(request[i])] = MainFiles[SourceOf(request[i])]
        /\ Done(j)
        /\ RenameFailed(j)
        /\ LastCall(calls[j]).result = "ok"
        /\ TargetOf(request[j]) \notin DOMAIN fs

-----------------------------------------------------------------------------
(* Failures of the cleanup *)

\* the invocation's delete of its target path was attempted and failed
UnlinkFailed(i) ==
    \E k \in 1..Len(calls[i]) : calls[i][k].fn = "os.unlink" /\ calls[i][k].result # "ok"

\* what the failed os.rename of the invocation raised
RenameFailureOf(i) ==
    LET k == CHOOSE n \in RenameCallsOf(i) : calls[i][n].result # "ok"
    IN  IF calls[i][k].result = "FileNotFoundError" THEN "FileNotFoundError"
        ELSE "os.rename failed"

\* C12: when the rename step fails and the cleanup delete fails too, the
\* cleanup failure is only logged and the caller still receives Internal
\* server error (500) whose message is that of the rename failure, not of
\* the cleanup failure.
C12_CleanupFailureIsOnlyLogged ==
    \A i \in Inv :
        (RenameFailed(i) /\ UnlinkFailed(i)) =>
            /\ Done(i)
            /\ response[i] = ErrorResponse(500, "Internal server error",
                                 "Unable to rename image", <<RenameFailureOf(i)>>)
            /\ logged[i] = <<"Failed to clean up placeholder file",
                             "Error renaming image">>
            /\ LastCall(calls[i]).fn = "os.unlink"

\* A rename failed, the delete of the placeholder failed too: the placeholder
\* is still at the target path and the caller has the answer.
C12_Witness ==
    \E i \in Inv :
        /\ Done(i)
        /\ RenameFailed(i)
        /\ UnlinkFailed(i)
        /\ PlaceholderLeft(i)
        /\ IsInternalError(response[i])

-----------------------------------------------------------------------------
(* Termination *)

\* the kinds of definitive outcome the answer is
OutcomesOf(r) ==
    {k \in {"success", "Validation Error", "Image Not Found", "File Exists",
             "Internal server error"} :
        \/ k = "success" /\ IsSuccess(r)
        \/ k = "Validation Error" /\ IsValidationError(r)
        \/ k = "Image Not Found" /\ IsNotFound(r)
        \/ k = "File Exists" /\ IsFileExists(r)
        \/ k = "Internal server error" /\ IsInternalError(r)}

\* a call of the invocation failed otherwise than with path-exists on the
\* create-exclusive: the lookup raised, os.open, os.close or os.rename raised
FailedUnrecognized(i) ==
    \/ frame[i].exc # ""
    \/ \E k \in 1..Len(calls[i]) :
          /\ calls[i][k].fn \in {"db_get_image_path_by_id", "os.open", "os.rename"}
          /\ calls[i][k].result \notin {"ok", "FileExistsError"}

\* C13: under fair scheduling every invocation eventually completes,
\* whatever the others do, with exactly one outcome among success, Validation
\* Error (400), Image Not Found (404), File Exists (400) and Internal server
\* error (500), given once and never changed; until then it has a step to
\* take whatever the state of the others (it never waits); and once a lookup,
\* a create-exclusive (otherwise than with path-exists) or a rename of it has
\* failed, its outcome is Internal server error (500).
C13_EveryInvocationCompletes ==
    /\ \A i \in Inv : <>Done(i)
    /\ [](\A i \in Inv :
            /\ ~Done(i) => (ENABLED Step(i)) /\ response[i] = NoResponse
            /\ Done(i) => Cardinality(OutcomesOf(response[i])) = 1
            /\ (Done(i) /\ FailedUnrecognized(i)) => IsInternalError(response[i]))
    /\ [][\A i \in Inv : Done(i) => response'[i] = response[i]]_vars

\* All invocations have completed: one after its lookup raised, with
\* Internal server error, and one with File Exists.
C13_Witness ==
    /\ \A i \in Inv : Done(i)
    /\ \E i \in Inv :
          /\ IsInternalError(response[i])
          /\ LastCall(calls[i]).fn = "db_get_image_path_by_id"
    /\ \E i \in Inv : IsFileExists(response[i])

-----------------------------------------------------------------------------
(* Who deletes the target path *)

\* the calls of the invocation that are a create-exclusive that failed, with
\* path-exists or with another error
FailedOpensOf(i) ==
    {k \in 1..Len(calls[i]) : calls[i][k].fn = "os.open" /\ calls[i][k].result # "ok"}

\* C16: an invocation attempts the delete of its target path only after its
\* own create-exclusive of that path succeeded and it noted so
\* (placeholder_created is true); an invocation whose create-exclusive
\* failed, with path-exists or with any other error, calls neither os.rename
\* nor os.unlink, so it deletes and renames nothing at the target path, and
\* ends in File Exists or in Internal server error.
C16_OnlyTheCreatorDeletes ==
    \A i \in Inv :
        /\ \A k \in 1..Len(calls[i]) :
              calls[i][k].fn = "os.unlink" =>
                  /\ frame[i].placeholder_created
                  /\ calls[i][k].args = <<frame[i].new_file_path>>
                  /\ \E n \in 1..(k - 1) :
                        calls[i][n] = Call_("os.open", <<frame[i].new_file_path>>, "ok")
        /\ FailedOpensOf(i) # {} =>
              /\ ~frame[i].placeholder_created
              /\ Mutations(i) = {}
              /\ \A k \in 1..Len(calls[i]) :
                    calls[i][k].fn \notin {"os.rename", "os.unlink"}
              /\ frame[i].pc \in {"cleanup", "done"}
              /\ Done(i) =>
                    IF LastCall(calls[i]).result = "FileExistsError"
                    THEN IsFileExists(response[i])
                    ELSE IsInternalError(response[i])

\* The create-exclusive of an invocation failed with an error other than
\* path-exists and the invocation has ended, while the placeholder of
\* another invocation with the same target is at the path.
C16_Witness ==
    \E i, j \in Inv :
        /\ SameTarget(i, j)
        /\ Done(i)
        /\ LastCall(calls[i]) = Call_("os.open", <<frame[i].new_file_path>>, "OSError")
        /\ IsInternalError(response[i])
        /\ PlaceholderLeft(j)

-----------------------------------------------------------------------------
(* Two renames of the same image *)

\* two accepted requests for the same image whose target paths are different
\* and free at the start
SameImageDifferentFreeTargets(i, j) ==
    /\ i # j
    /\ request[i].rename # request[j].rename
    /\ Trimmed(request[i].image_id) = Trimmed(request[j].image_id)
    /\ Accepted(request[i]) /\ Accepted(request[j])
    /\ TargetOf(request[i]) # TargetOf(request[j])
    /\ TargetOf(request[i]) \notin DOMAIN MainFiles
    /\ TargetOf(request[j]) \notin DOMAIN MainFiles

\* the paths at which the content of the request's image is
PathsOfContent(req) ==
    {q \in DOMAIN fs : fs[q] = MainFiles[SourceOf(req)]}

\* a call of the invocation failed for a reason of the environment: the
\* lookup raised, or os.open, os.close, os.rename or os.unlink raised an
\* error other than "no such file" and "file exists"
EnvironmentFailed(i) ==
    \/ frame[i].exc = "os.close failed"
    \/ \E k \in 1..Len(calls[i]) : calls[i][k].result \in {"raise", "OSError"}

\* invocation i returned success and j Internal server error after removing
\* its own placeholder; the content is at the target of i only and nothing
\* is at the target of j
WinnerAndCleanLoser(i, j) ==
    /\ IsSuccess(response[i])
    /\ IsInternalError(response[j])
    /\ WonReservation(j)
    /\ LastCall(calls[j]) = Call_("os.unlink", <<TargetOf(request[j])>>, "ok")
    /\ PathsOfContent(request[i]) = {TargetOf(request[i])}
    /\ TargetOf(request[j]) \notin DOMAIN fs

\* C15 as claimed: when two invocations for the same image with different
\* free target names have run concurrently and both have completed, exactly
\* one has returned success and the other Internal server error (500) after
\* removing its own placeholder; the original content is at the winner's
\* target only and no placeholder is at the loser's target.
C15_ExactlyOneRenamesTheImage ==
    \A i, j \in Inv :
        (/\ Done(i) /\ Done(j)
         /\ frame[i].image_path # None /\ frame[j].image_path # None
         /\ OthersChangedNothing(i, j)
         /\ SameImageDifferentFreeTargets(i, j)) =>
            WinnerAndCleanLoser(i, j) \/ WinnerAndCleanLoser(j, i)

\* C15, amended: when two invocations for the same image with different free
\* target names have run concurrently and both have completed, at most one
\* has returned success and the original content is at exactly one path: the
\* winner's target, or the original path when neither succeeded; a
\* placeholder is left at a target only by an invocation whose delete of it
\* or whose os.close failed.  When no call of either failed for a reason of
\* the environment, exactly one has returned success and the other Internal
\* server error (500) after removing its own placeholder, and no placeholder
\* is at the loser's target.
C15_AtMostOneRenamesTheImage ==
    \A i, j \in Inv :
        (/\ Done(i) /\ Done(j)
         /\ frame[i].image_path # None /\ frame[j].image_path # None
         /\ OthersChangedNothing(i, j)
         /\ SameImageDifferentFreeTargets(i, j)) =>
            /\ ~(IsSuccess(response[i]) /\ IsSuccess(response[j]))
            /\ PathsOfContent(request[i]) =
                  IF IsSuccess(response[i]) THEN {TargetOf(request[i])}
                  ELSE IF IsSuccess(response[j]) THEN {TargetOf(request[j])}
                  ELSE {SourceOf(request[i])}
            /\ PlaceholderLeft(i) =>
                  UnlinkFailed(i) \/ frame[i].exc = "os.close failed"
            /\ (~EnvironmentFailed(i) /\ ~EnvironmentFailed(j)) =>
                  WinnerAndCleanLoser(i, j) \/ WinnerAndCleanLoser(j, i)

\* Two invocations for the same image with different free targets have
\* completed without a failure of the environment: one returned success, the
\* other found the image gone, deleted its placeholder and returned 500.
C15_Witness ==
    \E i, j \in Inv :
        /\ SameImageDifferentFreeTargets(i, j)
        /\ ~EnvironmentFailed(i) /\ ~EnvironmentFailed(j)
        /\ Done(i) /\ Done(j)
        /\ WinnerAndCleanLoser(i, j)
        /\ \E k \in RenameCallsOf(j) : calls[j][k].result = "FileNotFoundError"

-----------------------------------------------------------------------------
(* Preservation of file content *)

\* the image contents on disk before any request
InitialContents == {MainFiles[q] : q \in DOMAIN MainFiles}

\* C14 as claimed: whatever rename invocations have run, one after the other
\* or interleaved, with the catalog never updated, every file content
\* present initially is still present at some path: no rename step and no
\* cleanup delete has destroyed an image.
C14_NoContentIsDestroyed ==
    \A content \in InitialContents : \E q \in DOMAIN fs : fs[q] = content

=============================================================================
